---------------------------- MODULE Spec2Model ----------------------------
(***************************************************************************)
(* Pose relay of SpatialParallax: the WebSocket handler, the velocity      *)
(* estimate and the fan-out broadcast, as implemented twice:               *)
(*   multiRun/server.py      (websockets)   impl = "multiRun"              *)
(*   singleRun/all_in_one.py (aiohttp)      impl = "singleRun"             *)
(* One asyncio event loop runs every handler; a step of the model is the   *)
(* code a task runs between two suspension points.                         *)
(***************************************************************************)
EXTENDS Integers, Sequences, FiniteSets, TLC

(***************************************************************************)
(* Numbers.  Python floats and ints are modelled as exact rationals        *)
(* n/d * 10^e in canonical form (d > 0 coprime to 10 and to n, 10 does not *)
(* divide n), so that 1e12 and epoch milliseconds stay inside TLC's 32-bit *)
(* integers.  Rounding of IEEE doubles is not modelled, but for the square *)
(* root, which is cut after three decimals.                                *)
(***************************************************************************)
RECURSIVE Pow10(_)
Pow10(k) == IF k <= 0 THEN 1 ELSE 10 * Pow10(k - 1)

RECURSIVE Gcd(_, _)
Gcd(a, b) == IF b = 0 THEN a ELSE Gcd(b, a % b)

Abs(i) == IF i < 0 THEN -i ELSE i

RECURSIVE Strip(_, _, _)
Strip(n, d, e) ==
    IF d % 2 = 0 THEN Strip(n * 5, d \div 2, e - 1)
    ELSE IF d % 5 = 0 THEN Strip(n * 2, d \div 5, e - 1)
    ELSE IF n % 10 = 0 THEN Strip(n \div 10, d, e + 1)
    ELSE [n |-> n, d |-> d, e |-> e]

Norm(n, d, e) ==
    IF n = 0 THEN [n |-> 0, d |-> 1, e |-> 0]
    ELSE LET g == Gcd(Abs(n), d) IN Strip(n \div g, d \div g, e)

N(i) == Norm(i, 1, 0)
Sci(m, e) == Norm(m, 1, e)
Zero == N(0)

\* floor(x / 10^k) without forming a power of ten beyond 32 bits
FloorDivPow10(x, k) ==
    IF k >= 10 THEN (IF x >= 0 THEN 0 ELSE -1) ELSE x \div Pow10(k)

\* a < b
Less(a, b) ==
    LET k == a.e - b.e
        L == a.n * b.d
        R == b.n * a.d
    IN  IF k >= 0 THEN L <= FloorDivPow10(R - 1, k)
        ELSE R > FloorDivPow10(L, -k)

Leq(a, b) == ~Less(b, a)
Geq(a, b) == ~Less(a, b)
Greater(a, b) == Less(b, a)

Sub(a, b) ==
    LET m == IF a.e < b.e THEN a.e ELSE b.e
        an == a.n * Pow10(a.e - m)
        bn == b.n * Pow10(b.e - m)
    IN  Norm(an * b.d - bn * a.d, a.d * b.d, m)

\* a * b, cancelling across the fractions before multiplying
Mul(a, b) ==
    IF a.n = 0 \/ b.n = 0 THEN Zero
    ELSE LET g == Gcd(Abs(a.n), b.d)
             h == Gcd(Abs(b.n), a.d)
         IN  Norm((a.n \div g) * (b.n \div h), (a.d \div h) * (b.d \div g),
                  a.e + b.e)

Add(a, b) == Sub(a, Norm(-b.n, b.d, b.e))

\* a / b for b # 0
Div(a, b) ==
    IF b.n > 0 THEN Mul(a, [n |-> b.d, d |-> b.n, e |-> -b.e])
    ELSE Mul(a, [n |-> -b.d, d |-> -b.n, e |-> -b.e])

\* floor of the square root of t, by bisection: lo^2 <= t < hi^2
RECURSIVE Bisect(_, _, _)
Bisect(lo, hi, t) ==
    IF hi - lo <= 1 THEN lo
    ELSE LET mid == (lo + hi) \div 2
         IN  IF mid * mid <= t THEN Bisect(mid, hi, t) ELSE Bisect(lo, mid, t)

ISqrt(t) == Bisect(0, 46341, t)

\* math.sqrt of a >= 0, cut after three decimals: exact on the squares of
\* integers, and within 1/1000 below the root otherwise
Sqrt(a) ==
    LET k == a.e + 6
        t == IF k >= 0 THEN (a.n * Pow10(k)) \div a.d
             ELSE FloorDivPow10(a.n, -k) \div a.d
    IN  Norm(ISqrt(t), 1, -3)

(***************************************************************************)
(* Inbound messages.  A message is the JSON text a client sent, described  *)
(* by what json.loads and the handler's lookups see in it.  A value of a   *)
(* key is "missing" (data.get gives None), "string" (a non-empty JSON      *)
(* string), "empty" ({}) or "map" (an object with integer members, of      *)
(* which those in bad are absent or not numeric).  ts is missing, a        *)
(* string, a number, the JSON literal true (the Python bool True, an       *)
(* instance of int), or "huge": a positive integer literal beyond the      *)
(* range of a double, which json.loads returns as an int and which the     *)
(* division by 1000.0 cannot convert (OverflowError).                      *)
(***************************************************************************)
NoKey == "<missing>"

JVal(k, x, y, z, w, bad) ==
    [k |-> k, x |-> x, y |-> y, z |-> z, w |-> w, bad |-> bad]
JMissing == JVal("missing", 0, 0, 0, 0, {})
JString == JVal("string", 0, 0, 0, 0, {})
JEmpty == JVal("empty", 0, 0, 0, 0, {})
JPos(x, y, z) == JVal("map", x, y, z, 0, {})
JRot(x, y, z, w) == JVal("map", x, y, z, w, {})
JBad(x, y, z, w, bad) == JVal("map", x, y, z, w, bad)

TsMissing == [k |-> "missing", v |-> Zero]
TsString == [k |-> "string", v |-> Zero]
TsHuge == [k |-> "huge", v |-> Zero]
TsNum(v) == [k |-> "number", v |-> v]

\* True: 1 in arithmetic and comparisons, true when serialized
PyTrue == [n |-> 1, d |-> 1, e |-> 0, bool |-> TRUE]
TsBool == [k |-> "bool", v |-> PyTrue]

\* isinstance(ts, (int, float)), and float(ts)
IsNumber(ts) == ts.k \in {"number", "bool"}
float(v) == Norm(v.n, v.d, v.e)

Pose(cid, ts, pos, rot) ==
    [json |-> "object", clientId |-> cid, ts |-> ts, position |-> pos,
     rotation |-> rot]
NotJson == [json |-> "invalid", clientId |-> NoKey, ts |-> TsMissing,
            position |-> JMissing, rotation |-> JMissing]
JsonArray == [json |-> "array", clientId |-> NoKey, ts |-> TsMissing,
              position |-> JMissing, rotation |-> JMissing]

\* Python truthiness, isinstance(v, dict), and whether v[key] and float()
\* succeed for every key of keys
Truthy(v) == v.k \in {"string", "map"}
IsDict(v) == v.k \in {"empty", "map"}
Floats(v, keys) == v.k = "map" /\ v.bad \cap keys = {}

\* float(i) of a JSON integer
ToFloat(i) == N(i)

\* the literal 1e12 of the millisecond-epoch test
MsEpoch == Sci(1, 12)

(***************************************************************************)
(* Samples, velocities and updates.  An optional value is a sequence of    *)
(* length 0 (None, key absent) or 1.                                       *)
(***************************************************************************)
None == << >>
Some(v) == << v >>

Vec3(x, y, z) == [x |-> x, y |-> y, z |-> z]
Sample(px, py, pz, ts_s) == [pos |-> Vec3(px, py, pz), ts |-> ts_s]

NoUpdate == [clientId |-> NoKey, ts |-> Zero, position |-> Vec3(Zero, Zero, Zero),
             rotation |-> [x |-> Zero, y |-> Zero, z |-> Zero, w |-> Zero],
             velocity |-> None]

Continue == [outcome |-> "continue", last |-> None, update |-> NoUpdate]
Raise == [outcome |-> "raise", last |-> None, update |-> NoUpdate]

\* the elapsed time of the estimate: the client's interval when the client
\* clock did not go back, the server's otherwise
elapsed_negfix(ts_s, last_ts, fallback_now) ==
    IF Greater(ts_s, last_ts) THEN Sub(ts_s, last_ts)
    ELSE Sub(fallback_now, last_ts)

elapsed_server(ts_s, last_ts, fallback_now) == Sub(fallback_now, last_ts)

elapsed(ts_s, last_ts, fallback_now) ==
    IF Geq(ts_s, last_ts) THEN Sub(ts_s, last_ts)
    ELSE Sub(fallback_now, last_ts)

velocity_record(l, px, py, pz, dt) ==
    LET dx == Sub(px, l.pos.x)
        dy == Sub(py, l.pos.y)
        dz == Sub(pz, l.pos.z)
        speed == Div(Sqrt(Add(Add(Mul(dx, dx), Mul(dy, dy)), Mul(dz, dz))), dt)
    IN  [vx |-> Div(dx, dt), vy |-> Div(dy, dt), vz |-> Div(dz, dt),
         speed_m_s |-> speed, dt |-> dt]

\* all_in_one.py compute_velocity; last["pos"] is a dict and last["ts"] a
\* number in every sample the handler stores
compute_velocity(last, px, py, pz, ts_s, fallback_now) ==
    IF last = None THEN None
    ELSE LET dt == elapsed(ts_s, last[1].ts, fallback_now)
         IN  IF Leq(dt, Zero) THEN None
             ELSE Some(velocity_record(last[1], px, py, pz, dt))

\* server.py, "Compute velocity" in handler
vel_info(last, px, py, pz, ts_s, now) ==
    IF last = None THEN None
    ELSE LET dt == elapsed(ts_s, last[1].ts, now)
         IN  IF Greater(dt, Zero) THEN Some(velocity_record(last[1], px, py, pz, dt))
             ELSE None

build_update(cid, ts_s, pos, rot, vel) ==
    [clientId |-> IF cid = NoKey THEN "unknown" ELSE cid,
     ts |-> ts_s,
     position |-> Vec3(ToFloat(pos.x), ToFloat(pos.y), ToFloat(pos.z)),
     rotation |-> [x |-> ToFloat(rot.x), y |-> ToFloat(rot.y),
                   z |-> ToFloat(rot.z), w |-> ToFloat(rot.w)],
     velocity |-> vel]

\* the integer a float with an integral value stands for
AsInt(a) == a.n * Pow10(a.e)

\* json.dumps(update, indent=2) and what json.loads gives back for that
\* text: an object whose clientId and ts are those of the update and whose
\* position and rotation hold its floats; a velocity is one more key
dumps(u) ==
    Pose(u.clientId, IF u.ts = PyTrue THEN TsBool ELSE TsNum(u.ts),
         JPos(AsInt(u.position.x), AsInt(u.position.y), AsInt(u.position.z)),
         JRot(AsInt(u.rotation.x), AsInt(u.rotation.y), AsInt(u.rotation.z),
              AsInt(u.rotation.w)))

\* the text of an update: json.dumps(update, indent=2), pretty(update)
pretty(u) == [body |-> dumps(u), velocity |-> u.velocity]

\* server.py handler, the body of the receive loop up to the broadcast:
\* what one message does given the stored last sample and time.time()
handler_body(m, last, now) ==
    IF m.json # "object" THEN Continue
    ELSE IF m.ts.k = "huge" THEN Raise
    ELSE
      LET ts_s == IF IsNumber(m.ts)
                  THEN (IF Greater(m.ts.v, MsEpoch) THEN Div(m.ts.v, N(1000))
                        ELSE m.ts.v)
                  ELSE now
          pos == m.position
          rot == m.rotation
      IN  IF ~Truthy(pos) \/ ~Truthy(rot) THEN Continue
          ELSE IF ~Floats(pos, {"x", "y", "z"}) \/ ~Floats(rot, {"x", "y", "z", "w"})
               THEN Continue
          ELSE
            LET px == ToFloat(pos.x)
                py == ToFloat(pos.y)
                pz == ToFloat(pos.z)
            IN  [outcome |-> "broadcast",
                 last |-> Some(Sample(px, py, pz, ts_s)),
                 update |-> build_update(m.clientId, ts_s, pos, rot,
                                         vel_info(last, px, py, pz, ts_s, now))]

\* all_in_one.py handle_ws, the body of the receive loop for a TEXT message;
\* now1 and now2 are the two now_s() readings
handle_ws_body(m, last, now1, now2) ==
    IF m.json # "object" THEN Continue
    ELSE IF m.ts.k = "huge" THEN Raise
    ELSE
      LET ts_s == IF IsNumber(m.ts)
                  THEN (IF Greater(m.ts.v, MsEpoch) THEN Div(m.ts.v, N(1000))
                        ELSE float(m.ts.v))
                  ELSE now1
          pos == m.position
          rot == m.rotation
      IN  IF ~(IsDict(pos) /\ IsDict(rot)) THEN Continue
          ELSE IF ~Floats(pos, {"x", "y", "z"}) \/ ~Floats(rot, {"x", "y", "z", "w"})
               THEN Continue
          ELSE
            LET px == ToFloat(pos.x)
                py == ToFloat(pos.y)
                pz == ToFloat(pos.z)
            IN  [outcome |-> "broadcast",
                 last |-> Some(Sample(px, py, pz, ts_s)),
                 update |-> build_update(m.clientId, ts_s, pos, rot,
                                compute_velocity(last, px, py, pz, ts_s, now2))]


(***************************************************************************)
(* Bounds of the model.                                                    *)
(***************************************************************************)
\* Spec, one fan-out: connections the transport may accept, and messages
\* that arrive over all of them
NumConns == 3
MaxMsgs == 1
\* SpecStream, a stream of messages
NumStreamConns == 2
MaxStreamMsgs == 2
\* SpecPose, one client that sends poses and reconnects: a connection is
\* accepted once the one before it has closed
NumPoseConns == 2
MaxPoseMsgs == 2
\* SpecLive, the runs checked for progress
NumLiveConns == 2
MaxLiveMsgs == 1
\* SpecTrip, timestamps around the millisecond-epoch threshold
NumTripConns == 2
MaxTripMsgs == 2

Conn == 1..NumConns

\* readings of the wall clock, time.time(): Spec fixes one, since no claim
\* checked under it reads a time
ClockNet == {N(1000)}
ClockPose == {N(1000), N(1003)}
ClockTrip == {Sci(2, 9), Sci(4, 9)}

Rot0 == JRot(0, 0, 0, 1)

\* the messages of Spec: the two poses of the velocity scenario, one
\* message that is not JSON
PoolNet ==
    { NotJson,
      Pose("a", TsNum(N(1000)), JPos(0, 0, 0), Rot0),
      Pose("a", TsNum(N(1001)), JPos(1, 0, 0), Rot0) }

\* the messages of SpecLive: one pose, one message that is not JSON
PoolLive ==
    { NotJson, Pose("a", TsNum(N(1000)), JPos(0, 0, 0), Rot0) }

\* the messages of SpecPose
PoolPose ==
    { NotJson, JsonArray,
      Pose("a", TsNum(N(1001)), JPos(1, 0, 0), JMissing),
      Pose("a", TsNum(N(1001)), JString, Rot0),
      Pose("a", TsNum(N(1001)), JEmpty, Rot0),
      Pose("a", TsNum(N(1001)), JBad(1, 0, 0, 0, {"y"}), Rot0),
      Pose("a", TsHuge, JPos(1, 0, 0), JMissing),
      Pose("a", TsHuge, JPos(1, 0, 0), Rot0),
      Pose("a", TsNum(N(1000)), JPos(0, 0, 0), Rot0),
      Pose("a", TsNum(N(1001)), JPos(1, 0, 0), Rot0),
      Pose(NoKey, TsNum(N(1001)), JPos(3, 4, 0), Rot0),
      Pose("a", TsNum(N(1005)), JPos(0, 0, 0), Rot0),
      Pose("b", TsMissing, JPos(3, 4, 0), Rot0),
      Pose("a", TsString, JPos(0, 0, 0), Rot0),
      Pose("a", TsNum(Sci(2, 12)), JPos(1, 0, 0), Rot0),
      Pose("a", TsBool, JPos(1, 0, 0), Rot0) }

\* the messages of SpecTrip: ts above 1e15, above 1e12, equal to 1e12,
\* missing, and not a number
PoolTrip ==
    { NotJson,
      Pose("a", TsNum(Sci(2, 15)), JPos(1, 0, 0), Rot0),
      Pose("a", TsNum(Sci(3, 12)), JPos(0, 0, 0), Rot0),
      Pose("a", TsNum(Sci(1, 12)), JPos(3, 4, 0), Rot0),
      Pose(NoKey, TsMissing, JPos(0, 0, 0), Rot0),
      Pose("b", TsString, JPos(1, 0, 0), Rot0) }

(***************************************************************************)
(* State.                                                                  *)
(***************************************************************************)
VARIABLES
    impl,         \* which of the two programs runs
    conns,        \* the connections this run may accept
    pool,         \* the messages clients may send in this run
    clock,        \* the readings of the wall clock in this run
    overlap,      \* whether connections may be open at the same time
    budget,       \* how many more messages may arrive
    tstate,       \* transport of a connection: "new", "open", "closed"
    inbox,        \* messages received by the transport, not yet iterated
    arrived,      \* how many messages arrived on a connection
    pc,           \* handler of a connection: "none", "recv", "gather", "done"
    exc,          \* the exception a handler ended with, "" for none
    clients,      \* clients (server.py), WSClients (all_in_one.py)
    client_last,  \* client_last: connection -> last sample, a dict
    active,       \* recipients of a handler's current or last broadcast
    send,         \* state of each _safe_send task of that broadcast
    tries,        \* how often each of these tasks called the transport's send
    texts,        \* the texts serialized for that broadcast, and for whom
    cur,          \* arrival number of the message that broadcast is for
    log,          \* what broadcast printed, in order (history)
    recvd         \* what each connection was sent successfully, in order

\* what Init fixes for the run
setup == << impl, conns, pool, clock, overlap >>

vars == << impl, conns, pool, clock, overlap, budget, tstate, inbox, arrived,
           pc, exc, clients, client_last, active, send, tries, texts, cur,
           log, recvd >>

Start(cs, msgs, clk, ov, n) ==
    /\ impl \in {"multiRun", "singleRun"}
    /\ conns = cs
    /\ pool = msgs
    /\ clock = clk
    /\ overlap = ov
    /\ budget = n
    /\ tstate = [c \in Conn |-> "new"]
    /\ inbox = [c \in Conn |-> << >>]
    /\ arrived = [c \in Conn |-> 0]
    /\ pc = [c \in Conn |-> "none"]
    /\ exc = [c \in Conn |-> ""]
    /\ clients = {}
    /\ client_last = << >>
    /\ active = [c \in Conn |-> {}]
    /\ send = [c \in Conn |-> << >>]
    /\ tries = [c \in Conn |-> << >>]
    /\ texts = [c \in Conn |-> << >>]
    /\ cur = [c \in Conn |-> 0]
    /\ log = << >>
    /\ recvd = [c \in Conn |-> << >>]

Init == Start(1..NumConns, PoolNet, ClockNet, TRUE, MaxMsgs)

InitStream ==
    Start(1..NumStreamConns, PoolNet, ClockNet, TRUE, MaxStreamMsgs)

InitLive == Start(1..NumLiveConns, PoolLive, ClockNet, TRUE, MaxLiveMsgs)

InitPose ==
    Start(1..NumPoseConns, PoolPose, ClockPose, FALSE, MaxPoseMsgs)

InitTrip ==
    Start(1..NumTripConns, PoolTrip, ClockTrip, FALSE, MaxTripMsgs)

(***************************************************************************)
(* Helpers of the actions.                                                 *)
(***************************************************************************)
\* dict.pop(key, None)
keep_key(d, key) == d

clear_all(d, key) == << >>

Pop(d, key) == [k \in DOMAIN d \ {key} |-> d[k]]

\* set.discard(key)
keep_member(cl, key) == cl

Discard(cl, key) == cl \ {key}

\* d[key] = v
put_global(d, key, v) == [k \in Conn |-> v]

setdefault(d, key, v) ==
    [k \in DOMAIN d \cup {key} |-> IF k \in DOMAIN d THEN d[k] ELSE v]

Put(d, key, v) == [k \in DOMAIN d \cup {key} |-> IF k = key THEN v ELSE d[k]]

\* client_last[websocket] of the defaultdict, client_last.get(ws)
default_origin(d, key) ==
    IF key \in DOMAIN d THEN Some(d[key])
    ELSE Some(Sample(Zero, Zero, Zero, Zero))

shared_last(d, key) ==
    IF key \in DOMAIN d THEN Some(d[key])
    ELSE IF DOMAIN d # {} THEN Some(d[CHOOSE k \in DOMAIN d : TRUE])
    ELSE None

last_of(d, key) == IF key \in DOMAIN d THEN Some(d[key]) ELSE None

IsOpen(c) == tstate[c] = "open"

\* the updates the handler of p passed to broadcast so far: the last one
\* is the dict its _safe_send tasks hold
log_of(p) ==
    LET idx == SelectSeq([i \in DOMAIN log |-> i], LAMBDA i : log[i].src = p)
    IN  [k \in DOMAIN idx |-> log[idx[k]].update]

\* the message the receive loop yields next
newest_first(q) == q[Len(q)]

next_message(q) == Head(q)

without(q, item) == SelectSeq(q, LAMBDA i : i # item)

\* server.py: active = [c for c in clients if c.state == State.OPEN]
\* all_in_one.py: ws for ws in list(WSClients) if not ws.closed
all_ever(cl, open) == Conn

only_first(cl, open) ==
    LET a == {c \in cl : c \in open}
    IN  IF a = {} THEN {} ELSE {CHOOSE c \in a : TRUE}

recipients(cl, open) == {c \in cl : c \in open}

\* the tasks asyncio.create_task / asyncio.gather start for the recipients
one_at_a_time(a) == IF a = {} THEN {} ELSE {CHOOSE c \in a : TRUE}

create_tasks(a) == a

\* _safe_send of server.py: the exception of ws.send is caught and printed
no_except(sent) == IF sent THEN "ok" ELSE "raised"

retry_send(sent) == IF sent THEN "ok" ELSE "created"

safe_send(sent) == IF sent THEN "ok" ELSE "caught"

\* _safe_send of all_in_one.py: returns at once on ws.closed, else as above
no_except_str(closed, sent) ==
    IF closed THEN "skipped" ELSE IF sent THEN "ok" ELSE "raised"

safe_send_str(closed, sent) ==
    IF closed THEN "skipped" ELSE IF sent THEN "ok" ELSE "caught"

\* the states of a task that gather counts as done
only_delivered == {"ok"}

not_awaited == {"ok", "caught", "skipped", "raised", "created"}

Settled == {"ok", "caught", "skipped", "raised"}

\* the finally block of the handler; the handler then ends, with the
\* exception why if any, and the server closes its connection
Cleanup(c, why) ==
    /\ client_last' = Pop(client_last, c)
    /\ clients' = Discard(clients, c)
    /\ pc' = [pc EXCEPT ![c] = "done"]
    /\ exc' = [exc EXCEPT ![c] = why]
    /\ tstate' = [tstate EXCEPT ![c] = "closed"]

(***************************************************************************)
(* Actions.                                                                *)
(***************************************************************************)
\* the transport accepts a connection and calls the handler, which
\* registers it and waits for the first message
Connect(c) ==
    /\ c \in conns
    /\ tstate[c] = "new"
    /\ \A d \in conns : d < c => tstate[d] # "new"
    /\ overlap \/ \A d \in conns : d < c => tstate[d] = "closed"
    /\ tstate' = [tstate EXCEPT ![c] = "open"]
    /\ clients' = clients \cup {c}
    /\ pc' = [pc EXCEPT ![c] = "recv"]
    /\ UNCHANGED << setup, budget, inbox, arrived, exc,
                    client_last, active, send, tries, texts, cur,
                    log, recvd >>

\* a client sends a message
Arrive(c) ==
    /\ IsOpen(c)
    /\ budget > 0
    /\ \E m \in pool :
         inbox' = [inbox EXCEPT
                     ![c] = Append(@, [m |-> m, n |-> arrived[c] + 1])]
    /\ arrived' = [arrived EXCEPT ![c] = @ + 1]
    /\ budget' = budget - 1
    /\ UNCHANGED << setup, tstate, pc, exc, clients,
                    client_last, active, send, tries, texts, cur,
                    log, recvd >>

\* the peer closes, or the transport fails
Close(c) ==
    /\ IsOpen(c)
    /\ tstate' = [tstate EXCEPT ![c] = "closed"]
    /\ UNCHANGED << setup, budget, inbox, arrived, pc, exc,
                    clients, client_last, active, send, tries, texts, cur,
                    log, recvd >>

\* one iteration of the receive loop: the message is parsed, the velocity
\* computed, the sample stored, and broadcast runs up to its gather
HandleMessage(c) ==
    /\ pc[c] = "recv"
    /\ inbox[c] # << >>
    /\ \E now1 \in clock, now2 \in clock :
         /\ Leq(now1, now2)
         /\ impl = "multiRun" => now1 = now2
         /\ LET item == next_message(inbox[c])
                last == last_of(client_last, c)
                r == IF impl = "multiRun" THEN handler_body(item.m, last, now1)
                     ELSE handle_ws_body(item.m, last, now1, now2)
                open == {d \in Conn : IsOpen(d)}
                a == recipients(clients, open)
            IN  /\ inbox' = [inbox EXCEPT ![c] = without(@, item)]
                /\ IF r.outcome = "continue"
                   THEN UNCHANGED << tstate, pc, exc, clients, client_last,
                                     active, send, tries, texts, cur, log >>
                   ELSE IF r.outcome = "raise"
                   THEN /\ Cleanup(c, "OverflowError")
                        /\ UNCHANGED << active, send, tries, texts, cur, log >>
                   ELSE /\ client_last' = Put(client_last, c, r.last[1])
                        /\ log' = Append(log,
                             [src |-> c, n |-> item.n, m |-> item.m,
                              update |-> r.update, now |-> now2])
                        /\ active' = [active EXCEPT ![c] = a]
                        /\ send' = [send EXCEPT ![c] =
                             [d \in a |-> IF d \in create_tasks(a)
                                          THEN "created" ELSE "idle"]]
                        /\ tries' = [tries EXCEPT ![c] = [d \in a |-> 0]]
                        /\ texts' = [texts EXCEPT
                             ![c] = << [for |-> "log", text |-> pretty(r.update)] >>]
                        /\ cur' = [cur EXCEPT ![c] = item.n]
                        /\ pc' = [pc EXCEPT
                                    ![c] = IF a = {} THEN "recv" ELSE "gather"]
                        /\ UNCHANGED << tstate, exc, clients >>
    /\ UNCHANGED << setup, budget, arrived, recvd >>

\* a _safe_send task runs: the transport's send delivers the text, or
\* raises (the connection is closed, or the transport fails)
SendRun(p, c) ==
    /\ c \in DOMAIN send[p]
    /\ send[p][c] = "created"
    /\ \E sent \in (IF IsOpen(c) THEN {TRUE, FALSE} ELSE {FALSE}) :
         LET st == IF impl = "multiRun" THEN safe_send(sent)
                   ELSE safe_send_str(~IsOpen(c), sent)
         IN  /\ send' = [send EXCEPT ![p][c] = st]
             /\ tries' = [tries EXCEPT
                            ![p][c] = IF st = "skipped" THEN @ ELSE @ + 1]
             /\ texts' = IF impl = "multiRun" \/ st = "skipped" THEN texts
                         ELSE LET data == log_of(p)[Len(log_of(p))]
                              IN  [texts EXCEPT ![p] = Append(@,
                                     [for |-> c, text |-> pretty(data)])]
             /\ recvd' = IF st = "ok"
                         THEN [recvd EXCEPT
                                 ![c] = Append(@, [src |-> p, n |-> cur[p]])]
                         ELSE recvd
    /\ UNCHANGED << setup, budget, tstate, inbox, arrived, pc,
                    exc, clients, client_last, active, cur, log >>

\* asyncio.gather ends: with the first exception of a task as soon as there
\* is one, else when every task it was given is done; the handler then
\* leaves through finally, or waits for its next message
GatherDone(p) ==
    /\ pc[p] = "gather"
    /\ LET raised == \E c \in active[p] : send[p][c] = "raised"
       IN  /\ raised \/ \A c \in active[p] : send[p][c] \in Settled \cup {"idle"}
           /\ IF raised
              THEN Cleanup(p, "send")
              ELSE /\ pc' = [pc EXCEPT ![p] = "recv"]
                   /\ UNCHANGED << tstate, exc, clients, client_last >>
    /\ UNCHANGED << setup, budget, inbox, arrived,
                    active, send, tries, texts, cur,
                    log, recvd >>

\* the receive loop ends on the closed connection and finally runs
EndLoop(c) ==
    /\ pc[c] = "recv"
    /\ tstate[c] = "closed"
    /\ Cleanup(c, "")
    /\ UNCHANGED << setup, budget, inbox, arrived,
                    active, send, tries, texts, cur,
                    log, recvd >>

Next ==
    \/ \E c \in Conn : Connect(c)
    \/ \E c \in Conn : Arrive(c)
    \/ \E c \in Conn : Close(c)
    \/ \E c \in Conn : HandleMessage(c)
    \/ \E p \in Conn, c \in Conn : SendRun(p, c)
    \/ \E p \in Conn : GatherDone(p)
    \/ \E c \in Conn : EndLoop(c)

Spec == Init /\ [][Next]_vars

SpecStream == InitStream /\ [][Next]_vars

SpecPose == InitPose /\ [][Next]_vars

SpecTrip == InitTrip /\ [][Next]_vars

\* the event loop runs every task that can run: a handler with a buffered
\* message or a closed transport is resumed, a send task that was created
\* runs and its send comes to an end, and a gather whose tasks are done
\* returns; nothing is assumed of what clients do
Fairness ==
    /\ \A c \in Conn : WF_vars(HandleMessage(c))
    /\ \A c \in Conn : WF_vars(EndLoop(c))
    /\ \A p \in Conn : WF_vars(GatherDone(p))
    /\ \A p \in Conn : \A c \in Conn : WF_vars(SendRun(p, c))

SpecLive == InitLive /\ [][Next]_vars /\ Fairness


(***************************************************************************)
(* Properties.                                                             *)
(***************************************************************************)
Done == {"ok", "caught", "skipped"}

Last(q) == q[Len(q)]

\* a step in which connection p issues a broadcast
Broadcasts(p) == Len(log') = Len(log) + 1 /\ Last(log').src = p

\* C1: a send that fails is caught in its own _safe_send: no broadcast ever
\* raises, once a broadcast has returned every recipient of its snapshot
\* has had its send run to an end, and each send that did not fail put the
\* update on its recipient's connection.
C1_SendFailureIsolated ==
    \A p \in Conn :
      /\ exc[p] # "send"
      /\ pc[p] # "gather" => \A c \in active[p] : send[p][c] \in Done
      /\ \A c \in active[p] :
           send[p][c] = "ok" =>
             \E i \in DOMAIN recvd[c] : recvd[c][i] = [src |-> p, n |-> cur[p]]

\* a broadcast to three recipients has returned: the send to one of them
\* failed, the other two were delivered
C1_Witness ==
    \E p \in Conn :
      /\ pc[p] = "recv"
      /\ Cardinality(active[p]) = 3
      /\ Cardinality({c \in active[p] : send[p][c] = "caught"}) = 1
      /\ Cardinality({c \in active[p] : send[p][c] = "ok"}) = 2

C3_ConcurrentThenJoined ==
    /\ [](\A p \in Conn :
            (\E c \in active[p] : send[p][c] \in Done) =>
              \A c \in active[p] : send[p][c] # "idle")
    /\ [][\A p \in Conn :
            pc[p] = "gather" /\ pc'[p] # "gather" =>
              \A c \in active[p] : send[p][c] \in Done]_vars

\* three sends of one broadcast: one has ended while two are in flight
C3_Witness ==
    \E p \in Conn :
      /\ pc[p] = "gather"
      /\ Cardinality(active[p]) = 3
      /\ Cardinality({c \in active[p] : send[p][c] = "created"}) = 2
      /\ Cardinality({c \in active[p] : send[p][c] = "ok"}) = 1


\* the updates of producer p in a sequence of deliveries or of log lines,
\* as the arrival numbers of their messages
RECURSIVE From(_, _)
From(q, p) ==
    IF q = << >> THEN << >>
    ELSE IF Head(q).src = p THEN << Head(q).n >> \o From(Tail(q), p)
    ELSE From(Tail(q), p)

Increasing(q) == \A i, j \in DOMAIN q : i < j => q[i] < q[j]

\* C9: every connection is sent the updates of one producer in the order
\* in which that producer's messages arrived, and broadcast prints them in
\* that order.
C9_ProducerOrder ==
    \A p \in Conn :
      /\ Increasing(From(log, p))
      /\ \A c \in Conn : Increasing(From(recvd[c], p))

\* a connection was sent two updates of another connection, while that
\* other connection was itself sent only the second
C9_Witness ==
    \E p \in Conn : \E c \in Conn \ {p} :
      /\ Len(From(recvd[c], p)) = 2
      /\ From(recvd[p], p) = << 2 >>

\* C10: while a broadcast of y is in flight and a recipient x of it, other
\* than y, is closed, no step ends y's handler or undoes a send of y: each
\* send of y stays as it is or comes to its end, and when the broadcast
\* returns every send of it has ended and y waits for its next message.
C10_CloseDoesNotCancel ==
    [][\A y \in Conn :
         (/\ pc[y] = "gather"
          /\ \E x \in active[y] \ {y} : tstate'[x] = "closed") =>
           /\ pc'[y] \in {"gather", "recv"}
           /\ active'[y] = active[y]
           /\ \A c \in active[y] :
                \/ send'[y][c] = send[y][c]
                \/ send[y][c] = "created" /\ send'[y][c] \in Done
           /\ pc'[y] = "recv" => \A c \in active[y] : send[y][c] \in Done]_vars

\* x closed while y's broadcast to x and y was in flight: the send to x
\* failed, the send to y was delivered, and y's next message is waiting
C10_Witness ==
    \E y \in Conn : \E x \in Conn \ {y} :
      /\ pc[y] = "gather"
      /\ active[y] = {x, y}
      /\ tstate[x] = "closed"
      /\ send[y][x] \in {"caught", "skipped"}
      /\ send[y][y] = "ok"
      /\ inbox[y] # << >>


\* what the claim C4 calls rejected by parsing or validation
NotAMapping(v) == v.k \in {"missing", "string"}
NotANumber(v, keys) == v.k = "empty" \/ v.bad \cap keys # {}
Malformed(m) ==
    \/ m.json = "invalid"
    \/ m.json = "array"
    \/ NotAMapping(m.position) \/ NotAMapping(m.rotation)
    \/ NotANumber(m.position, {"x", "y", "z"})
    \/ NotANumber(m.rotation, {"x", "y", "z", "w"})

\* C4: the handler's step on a malformed message leaves the connection
\* registered and open with its last sample, prints and broadcasts
\* nothing, and leaves the handler waiting for the next message.
C4_MalformedIsSkipped ==
    [][\A c \in Conn :
         (/\ pc[c] = "recv"
          /\ inbox[c] # << >>
          /\ inbox'[c] = Tail(inbox[c])
          /\ Malformed(Head(inbox[c]).m)) =>
           /\ c \in clients'
           /\ tstate'[c] = tstate[c]
           /\ client_last' = client_last
           /\ log' = log
           /\ active' = active
           /\ pc'[c] = "recv"]_vars

\* C5: an update carries a velocity only if its connection had a stored
\* sample when the message was handled and the elapsed time of the
\* velocity is positive; the first update of a connection carries none.
C5_VelocityNeedsPrevious ==
    [][\A c \in Conn :
         Broadcasts(c) =>
           LET u == Last(log').update
           IN  /\ u.velocity # None =>
                    /\ c \in DOMAIN client_last
                    /\ Greater(u.velocity[1].dt, Zero)
               /\ From(log, c) = << >> => u.velocity = None]_vars

\* a client reconnected: the first connection had an update, and the
\* first update of the second connection carries no velocity
C5_Witness ==
    /\ Len(log) = 2
    /\ log[1].src = 1
    /\ log[2].src = 2
    /\ log[2].update.velocity = None
    /\ 2 \in DOMAIN client_last

\* log lines i < j are consecutive updates of one connection
Consecutive(i, j) ==
    /\ i < j
    /\ log[i].src = log[j].src
    /\ \A k \in DOMAIN log : i < k /\ k < j => log[k].src # log[i].src

Square(a) == Mul(a, a)

\* C6: for consecutive updates A, B of one connection with B.ts > A.ts, B
\* carries a velocity with dt = B.ts - A.ts, components the differences of
\* position over dt, and speed the norm of that difference over dt (the
\* square root within 1/1000).
C6_VelocityOfClientInterval ==
    \A i, j \in DOMAIN log :
      Consecutive(i, j) /\ Greater(log[j].update.ts, log[i].update.ts) =>
        LET A == log[i].update
            B == log[j].update
            dx == Sub(B.position.x, A.position.x)
            dy == Sub(B.position.y, A.position.y)
            dz == Sub(B.position.z, A.position.z)
            d2 == Add(Add(Square(dx), Square(dy)), Square(dz))
        IN  /\ B.velocity # None
            /\ LET v == B.velocity[1]
                   norm == Mul(v.speed_m_s, v.dt)
               IN  /\ Add(A.ts, v.dt) = B.ts
                   /\ Mul(v.vx, v.dt) = dx
                   /\ Mul(v.vy, v.dt) = dy
                   /\ Mul(v.vz, v.dt) = dz
                   /\ Geq(norm, Zero)
                   /\ Leq(Square(norm), d2)
                   /\ Less(d2, Square(Add(norm, Sci(1, -3))))

\* the scenario of the specification: ts 1000 then 1001, x 0 then 1
C6_Witness ==
    /\ Len(log) = 2
    /\ log[1].src = log[2].src
    /\ log[1].update.ts = N(1000)
    /\ log[2].update.ts = N(1001)
    /\ log[2].update.velocity =
         Some([vx |-> N(1), vy |-> Zero, vz |-> Zero, speed_m_s |-> N(1),
               dt |-> N(1)])

\* the velocity of B is taken over the server's interval now - A.ts, and
\* there is none when that interval is not positive
ServerInterval(i, j) ==
    LET d == Sub(log[j].now, log[i].update.ts)
        vel == log[j].update.velocity
    IN  IF Greater(d, Zero) THEN vel # None /\ vel[1].dt = d ELSE vel = None

\* C7 as claimed: for consecutive updates A, B of one connection with
\* B.ts <= A.ts the estimate uses dt = serverNow - A.ts, and there is no
\* velocity when that is <= 0.
C7_Claimed ==
    \A i, j \in DOMAIN log :
      Consecutive(i, j) /\ Leq(log[j].update.ts, log[i].update.ts) =>
        ServerInterval(i, j)

\* C7 as amended: the server's interval replaces the client's when
\* B.ts < A.ts; when B.ts = A.ts the client's interval 0 is used and B
\* carries no velocity.
C7_ServerIntervalOnRegression ==
    \A i, j \in DOMAIN log :
      Consecutive(i, j) =>
        /\ Less(log[j].update.ts, log[i].update.ts) => ServerInterval(i, j)
        /\ log[j].update.ts = log[i].update.ts => log[j].update.velocity = None

\* the client clock went back and the velocity is over the server's
\* interval
C7_Witness ==
    \E i, j \in DOMAIN log :
      /\ Consecutive(i, j)
      /\ Less(log[j].update.ts, log[i].update.ts)
      /\ log[j].update.velocity # None
      /\ log[j].update.velocity[1].dt = Sub(log[j].now, log[i].update.ts)

\* q extends r
Extends(q, r) == Len(q) >= Len(r) /\ SubSeq(q, 1, Len(r)) = r

\* C8: a handler that has ended, after a close or with an exception, has
\* left its connection unregistered and without a last sample, and stays
\* ended: none of its messages is taken and nothing is broadcast for it.
C8_ClosedIsTerminal ==
    /\ [](\A c \in Conn :
            pc[c] = "done" => c \notin clients /\ c \notin DOMAIN client_last)
    /\ [][\A c \in Conn :
            pc[c] = "done" =>
              /\ pc'[c] = "done"
              /\ Extends(inbox'[c], inbox[c])
              /\ From(log', c) = From(log, c)
              /\ c \notin clients']_vars

\* a handler ended with the exception of a message, after an update of
\* its connection had stored a sample
C8_Witness ==
    \E c \in Conn :
      /\ pc[c] = "done"
      /\ exc[c] = "OverflowError"
      /\ From(log, c) # << >>


\* a step of the handler of connection c, or of a send of its broadcast
OwnStep(c) ==
    \/ Len(inbox'[c]) < Len(inbox[c])
    \/ send'[c] # send[c]
    \/ pc[c] = "gather" /\ pc'[c] # "gather"

\* velocity v of an update at position p is a rate of change from sample l
RateFrom(v, p, l) ==
    /\ Mul(v.vx, v.dt) = Sub(p.x, l.pos.x)
    /\ Mul(v.vy, v.dt) = Sub(p.y, l.pos.y)
    /\ Mul(v.vz, v.dt) = Sub(p.z, l.pos.z)

\* C11: a step of the handler of connection c (a message skipped or
\* accepted, a send of its broadcast that fails or not, the end of its
\* gather) changes the registration and the last sample of no other
\* connection, and the velocity of an update of c is a rate from the last
\* sample of c itself: there is none when c has no sample, also when
\* another connection has one under the same clientId.
C11_OtherConnectionsUntouched ==
    [][\A c \in Conn :
         OwnStep(c) =>
           /\ \A d \in Conn \ {c} :
                /\ (d \in clients') = (d \in clients)
                /\ (d \in DOMAIN client_last') = (d \in DOMAIN client_last)
                /\ d \in DOMAIN client_last => client_last'[d] = client_last[d]
           /\ Broadcasts(c) =>
                LET u == Last(log').update
                IN  IF c \in DOMAIN client_last
                    THEN u.velocity # None =>
                           RateFrom(u.velocity[1], u.position, client_last[c])
                    ELSE u.velocity = None]_vars

\* two connections reported the same clientId; the second one's first
\* update has no velocity, and a send of its broadcast failed
C11_Witness ==
    /\ Len(log) = 2
    /\ log[1].src = 1
    /\ log[2].src = 2
    /\ log[1].update.clientId = log[2].update.clientId
    /\ log[2].update.velocity = None
    /\ DOMAIN client_last = {1, 2}
    /\ \E d \in active[2] : send[2][d] = "caught"


\* the update the inbound parser makes of the text of update u
Reparsed(u, now) ==
    IF impl = "multiRun" THEN handler_body(dumps(u), None, now)
    ELSE handle_ws_body(dumps(u), None, now, now)

\* C12: the text of every update the relay broadcasts, parsed as an
\* inbound message, is accepted and gives the clientId, timestamp, position
\* and rotation of the update.
C12_RoundTrip ==
    \A i \in DOMAIN log :
      \A now \in clock :
        LET u == log[i].update
            r == Reparsed(u, now)
        IN  /\ r.outcome = "broadcast"
            /\ r.update.clientId = u.clientId
            /\ r.update.ts = u.ts
            /\ r.update.position = u.position
            /\ r.update.rotation = u.rotation


Range(q) == {q[i] : i \in DOMAIN q}

\* C13: each send task of a broadcast calls the transport's send at most
\* once, an update whose send failed or was skipped is not delivered, and
\* no connection is delivered an update twice.
C13_AtMostOnce ==
    /\ \A p \in Conn :
         \A c \in DOMAIN tries[p] :
           /\ tries[p][c] <= 1
           /\ send[p][c] \in {"caught", "skipped"} =>
                [src |-> p, n |-> cur[p]] \notin Range(recvd[c])
    /\ \A c \in Conn :
         \A i, j \in DOMAIN recvd[c] : i # j => recvd[c][i] # recvd[c][j]

\* connection 1 produced two updates; the send of the first to itself
\* failed, and only the second was delivered to it
C13_Witness ==
    /\ Len(log) = 2
    /\ log[1].src = 1
    /\ log[2].src = 1
    /\ recvd[1] = << [src |-> 1, n |-> log[2].n] >>
    /\ tries[1][1] = 1


\* C14: the timestamp of an update is the ts of its message over 1000 when
\* that is a number above 1e12, the ts itself when it is a number of at
\* most 1e12, and a reading of the server's clock when the message has no
\* ts or one that is not a number; a message without clientId gives the
\* clientId "unknown".
C14_TimestampNormalized ==
    \A i \in DOMAIN log :
      LET m == log[i].m
          u == log[i].update
      IN  /\ m.ts.k = "number" /\ Greater(m.ts.v, MsEpoch) =>
               Mul(u.ts, N(1000)) = m.ts.v
          /\ m.ts.k = "number" /\ Leq(m.ts.v, MsEpoch) => u.ts = m.ts.v
          /\ m.ts.k # "number" => u.ts \in clock /\ Leq(u.ts, log[i].now)
          /\ m.clientId = NoKey => u.clientId = "unknown"


\* C15: a broadcast in progress ends normally whatever its recipients do;
\* when the handler of a connection finishes, the registered connections
\* are one fewer, that connection alone being removed; and a broadcast that
\* starts afterwards does not have it among its recipients.
C15_DisconnectDuringBroadcast ==
    [][  /\ \A p \in Conn :
              pc[p] = "gather" /\ pc'[p] # "gather" =>
                /\ pc'[p] = "recv"
                /\ exc'[p] = ""
                /\ p \in clients'
         /\ \A c \in Conn :
              pc[c] # "done" /\ pc'[c] = "done" =>
                /\ c \in clients
                /\ clients' = clients \ {c}
                /\ Cardinality(clients') = Cardinality(clients) - 1
         /\ \A p \in Conn :
              Broadcasts(p) =>
                \A c \in Conn : pc[c] = "done" => c \notin active'[p]]_vars

\* connection 2 was open at the snapshot of a broadcast of connection 1
\* and closed when its send task ran; the broadcast has ended, and so has
\* the handler of connection 2
C15_Witness ==
    /\ pc[1] = "recv"
    /\ active[1] = {1, 2}
    /\ send[1][2] = "skipped"
    /\ send[1][1] = "ok"
    /\ pc[2] = "done"
    /\ clients = {1}


\* the sample of an update: its position and timestamp
SampleOf(u) == [pos |-> u.position, ts |-> u.ts]

\* the updates of connection c, in order
UpdatesOf(c) == log_of(c)

\* C16: the step that accepts a message of a connection stores the
\* position and timestamp of its update as the last sample of the
\* connection, with or without a velocity; and at any time the last sample
\* of a registered connection is that of its most recent update, or absent
\* when it has had none: messages that were skipped do not change it.
C16_LastSampleIsLatest ==
    /\ [][\A c \in Conn :
            Broadcasts(c) =>
              /\ c \in DOMAIN client_last'
              /\ client_last'[c] = SampleOf(Last(log').update)]_vars
    /\ [](\A c \in clients :
            IF UpdatesOf(c) = << >> THEN c \notin DOMAIN client_last
            ELSE /\ c \in DOMAIN client_last
                 /\ client_last[c] = SampleOf(Last(UpdatesOf(c))))

\* connection 1 had its first message accepted, without a velocity, and
\* its second skipped; its last sample is that of the first
C16_Witness ==
    /\ 1 \in clients
    /\ arrived[1] = 2
    /\ inbox[1] = << >>
    /\ pc[1] = "recv"
    /\ Len(log) = 1
    /\ log[1].n = 1
    /\ log[1].update.velocity = None
    /\ client_last[1] = SampleOf(log[1].update)


\* C17: the recipients of a broadcast are connections registered when it
\* takes its snapshot; while its sends are in flight the set of recipients
\* and of send tasks stays as it is, whatever registers or unregisters; and
\* an update is delivered only to a recipient of its broadcast.
C17_SnapshotIsFixed ==
    [][\A p \in Conn :
         /\ Broadcasts(p) =>
              /\ active'[p] \subseteq clients
              /\ DOMAIN send'[p] = active'[p]
         /\ pc[p] = "gather" =>
              /\ active'[p] = active[p]
              /\ DOMAIN send'[p] = active[p]
         /\ \A c \in Conn :
              (/\ Len(recvd'[c]) > Len(recvd[c])
               /\ Last(recvd'[c]).src = p) =>
                /\ pc[p] = "gather"
                /\ c \in active[p]
                /\ Last(recvd'[c]).n = cur[p]]_vars

\* while the broadcast of connection 1 to connections 1 and 2 was in
\* flight, connection 2 unregistered and connection 3 registered; the
\* broadcast has ended, and connection 3, still open, was sent nothing
C17_Witness ==
    /\ pc[1] = "recv"
    /\ Len(log) = 1
    /\ active[1] = {1, 2}
    /\ send[1][1] = "ok"
    /\ pc[2] = "done"
    /\ 3 \in clients
    /\ tstate[3] = "open"
    /\ recvd[3] = << >>


\* C18: a connection is registered once, and has no last sample when it
\* is; while registered it has none until its first update, and any last
\* sample it has is the sample of one of its own updates, never one stored
\* before its registration.
C18_FreshOnRegister ==
    /\ [][\A c \in Conn :
            c \notin clients /\ c \in clients' =>
              /\ pc[c] = "none"
              /\ c \notin DOMAIN client_last']_vars
    /\ [](\A c \in clients :
            /\ UpdatesOf(c) = << >> => c \notin DOMAIN client_last
            /\ c \in DOMAIN client_last =>
                 \E i \in DOMAIN log :
                   log[i].src = c /\ client_last[c] = SampleOf(log[i].update))

\* a client had an update on connection 1, which ended; it is registered
\* again as connection 2, whose first message was skipped: connection 2
\* has no last sample
C18_Witness ==
    /\ pc[1] = "done"
    /\ Len(log) = 1
    /\ log[1].src = 1
    /\ 2 \in clients
    /\ arrived[2] = 1
    /\ inbox[2] = << >>
    /\ 2 \notin DOMAIN client_last


\* C19: the update of a broadcast is serialized once, and every text made
\* of it, for the log or for a recipient, is the same text.
C19_SerializedOnce ==
    \A p \in Conn :
      /\ Len(texts[p]) <= 1
      /\ \A i \in DOMAIN texts[p] : texts[p][i].text = texts[p][1].text


\* connection d is registered alike, with the same last sample if any, in
\* the live sets cl1, cl2 and the dicts d1, d2
SameState(d, cl1, d1, cl2, d2) ==
    /\ (d \in cl1) = (d \in cl2)
    /\ (d \in DOMAIN d1) = (d \in DOMAIN d2)
    /\ d \in DOMAIN d1 => d1[d] = d2[d]

\* C20: the end of a handler removes its connection from the live set and
\* from the last samples and changes no other connection; and in every
\* state, unregistering any identity leaves it in neither, changes no
\* other identity, changes nothing when the identity is in neither, and
\* changes nothing when done a second time.
C20_UnregisterIdempotent ==
    /\ [][\A c \in Conn :
            pc[c] # "done" /\ pc'[c] = "done" =>
              /\ c \notin clients'
              /\ c \notin DOMAIN client_last'
              /\ \A d \in Conn \ {c} :
                   SameState(d, clients, client_last, clients', client_last')]_vars
    /\ [](\A c \in Conn :
            LET cl == Discard(clients, c)
                ls == Pop(client_last, c)
            IN  /\ c \notin cl
                /\ c \notin DOMAIN ls
                /\ \A d \in Conn \ {c} :
                     SameState(d, clients, client_last, cl, ls)
                /\ c \notin clients /\ c \notin DOMAIN client_last =>
                     cl = clients /\ ls = client_last
                /\ Discard(cl, c) = cl
                /\ Pop(ls, c) = ls)

\* the handler of connection 1 has ended after an update, connection 2 is
\* registered with a last sample, connection 3 was never registered
C20_Witness ==
    /\ pc[1] = "done"
    /\ Len(log) = 2
    /\ log[1].src = 1
    /\ log[2].src = 2
    /\ 2 \in clients
    /\ 2 \in DOMAIN client_last
    /\ pc[3] = "none"


\* C21: every connection that has a last sample is registered: no run
\* leaves a last sample behind for a connection that was unregistered.
C21_SamplesOfLiveOnly ==
    \A c \in DOMAIN client_last : c \in clients

\* connection 1 had an update and its handler has ended; connection 2,
\* still registered, is the only one with a last sample
C21_Witness ==
    /\ pc[1] = "done"
    /\ \E i \in DOMAIN log : log[i].src = 1
    /\ clients = {2}
    /\ DOMAIN client_last = {2}


\* C22: a handler takes a message only when it is not inside a broadcast;
\* while its broadcast is in flight it takes none and issues no other
\* broadcast, and as long as one send of that broadcast has not come to
\* its end the handler stays inside it.
C22_OneBroadcastInFlight ==
    [][\A p \in Conn :
         /\ Len(inbox'[p]) < Len(inbox[p]) => pc[p] = "recv"
         /\ pc[p] = "gather" =>
              /\ Extends(inbox'[p], inbox[p])
              /\ ~Broadcasts(p)
              /\ cur'[p] = cur[p]
         /\ (/\ pc[p] = "gather"
             /\ \E c \in active[p] : send'[p][c] = "created") =>
              pc'[p] = "gather"]_vars

\* the next message of connection 1 waits while its broadcast is in
\* flight: the send to connection 1 has ended, the one to 2 has not
C22_Witness ==
    /\ pc[1] = "gather"
    /\ inbox[1] # << >>
    /\ active[1] = {1, 2}
    /\ send[1][1] = "ok"
    /\ send[1][2] = "created"


\* C23: with the scheduling of Fairness, every broadcast returns to its
\* handler; every send task of a broadcast comes to an end, having called
\* the transport's send unless its recipient was closed; and every
\* connection whose transport is closed is unregistered.
C23_EventuallyDone ==
    /\ \A p \in 1..NumLiveConns : (pc[p] = "gather") ~> (pc[p] = "recv")
    /\ \A p \in 1..NumLiveConns :
         \A c \in 1..NumLiveConns :
           (c \in DOMAIN send[p] /\ send[p][c] = "created")
             ~> (/\ c \in DOMAIN send[p]
                 /\ \/ send[p][c] \in {"ok", "caught"} /\ tries[p][c] = 1
                    \/ send[p][c] \in {"caught", "skipped"} /\ ~IsOpen(c))
    /\ \A c \in 1..NumLiveConns : (tstate[c] = "closed") ~> (c \notin clients)

\* the broadcast of connection 1 to connections 1 and 2 has returned: the
\* send to connection 1, still open, was made, and connection 2, which
\* closed, is unregistered
C23_Witness ==
    /\ pc[1] = "recv"
    /\ active[1] = {1, 2}
    /\ IsOpen(1)
    /\ tries[1][1] = 1
    /\ send[1][1] \in {"ok", "caught"}
    /\ tstate[2] = "closed"
    /\ 2 \notin clients

=============================================================================
